---- MODULE Spec2Model ----
(***************************************************************************)
(* Verification model of the Aqualyx groundwater pollution calculations    *)
(* (pollutionCalculations.ts): the standards table, the three index        *)
(* formulas, the classifier, the sample processor, the critical-metal      *)
(* finder and the dataset aggregator; of the validation of an uploaded     *)
(* file (DataUpload); and of the Index page that analyses what was         *)
(* uploaded.                                                               *)
(*                                                                         *)
(* Numbers.  A JavaScript number is modelled by its exact value: a         *)
(* rational n/d in lowest terms, or NaN, or +/-Infinity.  The error of a   *)
(* double division or addition (one part in 2^53) is not modelled: the     *)
(* operators compute the exact result.  Comparisons and toFixed act on the *)
(* exact value of their operand, as ECMAScript defines them to.  The       *)
(* inputs are chosen where this makes no difference to what is stored:     *)
(* see Samples below.                                                      *)
(***************************************************************************)
EXTENDS Integers, Sequences, FiniteSets, TLC

VARIABLES
    metals,     \* the MetalConcentrations handed to calculatePollutionIndices
    indices,    \* the PollutionIndices it returned, or NoIndices before the call
    hpiArg,     \* getPollutionStatus: argument hpi
    miArg,      \* getPollutionStatus: argument mi
    cdArg,      \* getPollutionStatus: argument cd
    verdict,    \* getPollutionStatus: the {status, statusLabel} returned, or NoVerdict
    results,    \* generateSummaryStats: the PollutionIndices[] collected for the call
    summary,    \* generateSummaryStats: the outcome of the call, or NoSummary
    critical,   \* getMostCriticalMetal: what it returned for metals, or NoCritical
    earlier,    \* the <<metals, indices>> of the calls made so far, oldest first
    fileName,        \* DataUpload: file.name of the file handed to handleFile
    data,            \* DataUpload: the rows parseCSV returns for the text of the file
    uploadStatus,    \* DataUpload: 'idle' | 'uploading' | 'success' | 'error'
    errorMessage,    \* DataUpload: useState errorMessage, as its lines ('' is <<>>)
    delivered,       \* DataUpload: the samples passed to onDataUploaded, or NotDelivered
    uploadedData,    \* Index page: useState uploadedData (Null or a sequence of samples)
    analysisResults, \* Index page: useState analysisResults (Null or a sequence of results)
    isAnalyzing,     \* Index page: useState isAnalyzing
    effect,          \* Index page: the useEffect callback of the last commit, if not yet run
    run,             \* Index page: the analyzeData call waiting on its timer, or NoRun
    toasts,          \* Index page: the titles passed to toast(), oldest first
    outputs          \* Index page: what the export handlers produced, oldest first

uploadVars == <<fileName, data, uploadStatus, errorMessage, delivered>>

pageVars == <<uploadedData, analysisResults, isAnalyzing, effect, run, toasts, outputs>>

vars ==
    <<metals, indices, hpiArg, miArg, cdArg, verdict, results, summary,
      critical, earlier, uploadVars, pageVars>>

----------------------------------------------------------------------------
(* JavaScript numbers *)

Abs(i) == IF i < 0 THEN -i ELSE i

Sign(i) == IF i < 0 THEN -1 ELSE IF i > 0 THEN 1 ELSE 0

RECURSIVE GCD(_, _)
GCD(a, b) == IF b = 0 THEN a ELSE GCD(b, a % b)

NaN == [k |-> "nan", n |-> 0, d |-> 1]

PosInf == [k |-> "inf", n |-> 1, d |-> 1]

NegInf == [k |-> "inf", n |-> -1, d |-> 1]

\* The finite number n/d (d # 0), in lowest terms with a positive denominator.
Fin(n, d) ==
    LET g == GCD(Abs(n), Abs(d))
    IN  [k |-> "fin", n |-> (Sign(d) * n) \div g, d |-> Abs(d) \div g]

Zero == Fin(0, 1)

IsNaN(x) == x.k = "nan"

IsFinite(x) == x.k = "fin"

\* x + y
Add(x, y) ==
    IF IsNaN(x) \/ IsNaN(y) THEN NaN
    ELSE IF ~IsFinite(x) /\ ~IsFinite(y) THEN (IF x.n = y.n THEN x ELSE NaN)
    ELSE IF ~IsFinite(x) THEN x
    ELSE IF ~IsFinite(y) THEN y
    ELSE LET g == GCD(x.d, y.d)
         IN  Fin(x.n * (y.d \div g) + y.n * (x.d \div g), x.d * (y.d \div g))

\* -x
Neg(x) == IF IsNaN(x) THEN NaN ELSE [x EXCEPT !.n = -x.n]

\* x - y
Sub(x, y) == Add(x, Neg(y))

\* x * y
Mul(x, y) ==
    IF IsNaN(x) \/ IsNaN(y) THEN NaN
    ELSE IF ~IsFinite(x) \/ ~IsFinite(y)
         THEN (IF x.n = 0 \/ y.n = 0 THEN NaN
               ELSE IF Sign(x.n) = Sign(y.n) THEN PosInf ELSE NegInf)
    ELSE LET g1 == GCD(Abs(x.n), y.d)
             g2 == GCD(Abs(y.n), x.d)
         IN  Fin((x.n \div g1) * (y.n \div g2), (x.d \div g2) * (y.d \div g1))

\* x / y
Div(x, y) ==
    IF IsNaN(x) \/ IsNaN(y) THEN NaN
    ELSE IF ~IsFinite(x) /\ ~IsFinite(y) THEN NaN
    ELSE IF ~IsFinite(x) THEN (IF y.n < 0 THEN Neg(x) ELSE x)
    ELSE IF ~IsFinite(y) THEN Zero
    ELSE IF y.n = 0
         THEN (IF x.n = 0 THEN NaN ELSE IF x.n > 0 THEN PosInf ELSE NegInf)
    ELSE Mul(x, Fin(y.d, y.n))

\* x > y  (false when either side is NaN)
Gt(x, y) ==
    IF IsNaN(x) \/ IsNaN(y) THEN FALSE
    ELSE IF ~IsFinite(x) THEN x.n > 0 /\ ~(~IsFinite(y) /\ y.n > 0)
    ELSE IF ~IsFinite(y) THEN y.n < 0
    ELSE x.n * y.d > y.n * x.d

RECURSIVE Pow10(_)
Pow10(f) == IF f = 0 THEN 1 ELSE 10 * Pow10(f - 1)

\* Number(x.toFixed(f)), mutated: the magnitude is truncated, not rounded.
ToFixedTruncating(x, f) ==
    IF ~IsFinite(x) THEN x
    ELSE Fin(Sign(x.n) * ((Abs(x.n) * Pow10(f)) \div x.d), Pow10(f))

\* Number(x.toFixed(f)): the integer n with n / 10^f nearest to |x|, the larger
\* n of two equally near, under the sign of x; NaN and the infinities print as
\* themselves and parse back.
ToFixed(x, f) ==
    IF ~IsFinite(x) THEN x
    ELSE Fin(Sign(x.n) * ((2 * Abs(x.n) * Pow10(f) + x.d) \div (2 * x.d)), Pow10(f))

----------------------------------------------------------------------------
(* Standards registry *)

\* Object.keys(metals): the keys of a MetalConcentrations in insertion order.
metalKeys == <<"lead", "cadmium", "arsenic", "chromium">>

Metal == {metalKeys[i] : i \in 1..Len(metalKeys)}

\* WHO/EPA standard limits for drinking water (mg/L)
STANDARDS ==
    [lead |-> Fin(1, 100), cadmium |-> Fin(3, 1000),
     arsenic |-> Fin(1, 100), chromium |-> Fin(5, 100)]

\* Metal weights for HPI calculation
WEIGHTS ==
    [lead |-> Fin(9, 10), cadmium |-> Fin(1, 1),
     arsenic |-> Fin(1, 1), chromium |-> Fin(8, 10)]

----------------------------------------------------------------------------
(* Index calculator *)

\* The sub-index, mutated: a concentration below the standard earns credit.
subIndexUnclipped(concentration, standard) ==
    Div(Mul(Fin(100, 1), Sub(concentration, standard)), standard)

\* The sub-index, mutated: the distance from the standard, on either side.
subIndexOfDeviation(concentration, standard) ==
    IF Gt(concentration, standard)
    THEN Div(Mul(Fin(100, 1), Sub(concentration, standard)), standard)
    ELSE Div(Mul(Fin(100, 1), Sub(standard, concentration)), standard)

\* Sub-index calculation (Qi)
subIndex(concentration, standard) ==
    IF Gt(concentration, standard)
    THEN Div(Mul(Fin(100, 1), Sub(concentration, standard)), standard)
    ELSE Zero

\* The forEach of calculateHPI from key i on: <<weightedSum, totalWeight>>.
RECURSIVE hpiLoop(_, _, _, _)
hpiLoop(m, i, weightedSum, totalWeight) ==
    IF i > Len(metalKeys) THEN <<weightedSum, totalWeight>>
    ELSE LET metal == metalKeys[i]
             q == subIndex(m[metal], STANDARDS[metal])
         IN  hpiLoop(m, i + 1, Add(weightedSum, Mul(WEIGHTS[metal], q)),
                     Add(totalWeight, WEIGHTS[metal]))

\* The unweighted sum of the sub-indices from key i on.
RECURSIVE subIndexSum(_, _, _)
subIndexSum(m, i, acc) ==
    IF i > Len(metalKeys) THEN acc
    ELSE subIndexSum(m, i + 1,
                     Add(acc, subIndex(m[metalKeys[i]], STANDARDS[metalKeys[i]])))

\* calculateHPI, mutated: the weights are left out of the mean.
calculateHPIUnweighted(m) == Div(subIndexSum(m, 1, Zero), Fin(Len(metalKeys), 1))

calculateHPI(m) ==
    LET r == hpiLoop(m, 1, Zero, Zero)
    IN  IF Gt(r[2], Zero) THEN Div(r[1], r[2]) ELSE Zero

\* The reduce, mutated: each term is the excess (Ci - Si)/Si over the standard.
RECURSIVE ratioSumOfExcess(_, _, _)
ratioSumOfExcess(m, i, acc) ==
    IF i > Len(metalKeys) THEN acc
    ELSE ratioSumOfExcess(m, i + 1,
            Add(acc, Div(Sub(m[metalKeys[i]], STANDARDS[metalKeys[i]]),
                         STANDARDS[metalKeys[i]])))

\* metalKeys.reduce((acc, metal) => acc + metals[metal] / STANDARDS[metal], 0)
RECURSIVE ratioSum(_, _, _)
ratioSum(m, i, acc) ==
    IF i > Len(metalKeys) THEN acc
    ELSE ratioSum(m, i + 1, Add(acc, Div(m[metalKeys[i]], STANDARDS[metalKeys[i]])))

\* calculateMI, mutated: the sum is returned without dividing by n.
calculateMIUndivided(m) == ratioSum(m, 1, Zero)

calculateMI(m) == Div(ratioSum(m, 1, Zero), Fin(Len(metalKeys), 1))

\* calculateCd, mutated: the mean of the ratios instead of their sum.
calculateCdAsMean(m) == Div(ratioSum(m, 1, Zero), Fin(Len(metalKeys), 1))

calculateCd(m) == ratioSum(m, 1, Zero)

----------------------------------------------------------------------------
(* Classifier *)

\* x >= y  (false when either side is NaN)
Ge(x, y) == ~IsNaN(x) /\ ~IsNaN(y) /\ ~Gt(y, x)

\* getPollutionStatus, mutated: the danger tests are >= instead of >.
getPollutionStatusInclusive(hpi, mi, cd) ==
    IF Ge(hpi, Fin(100, 1)) \/ Ge(mi, Fin(15, 10)) \/ Ge(cd, Fin(3, 1))
    THEN [status |-> "danger", statusLabel |-> "High Contamination"]
    ELSE IF Gt(hpi, Fin(50, 1)) \/ Gt(mi, Fin(1, 1)) \/ Gt(cd, Fin(15, 10))
    THEN [status |-> "moderate", statusLabel |-> "Moderate Contamination"]
    ELSE [status |-> "safe", statusLabel |-> "Safe Level"]

\* getPollutionStatus, mutated: the cd tests are > 4 and > 2.
getPollutionStatusLaxCd(hpi, mi, cd) ==
    IF Gt(hpi, Fin(100, 1)) \/ Gt(mi, Fin(15, 10)) \/ Gt(cd, Fin(4, 1))
    THEN [status |-> "danger", statusLabel |-> "High Contamination"]
    ELSE IF Gt(hpi, Fin(50, 1)) \/ Gt(mi, Fin(1, 1)) \/ Gt(cd, Fin(2, 1))
    THEN [status |-> "moderate", statusLabel |-> "Moderate Contamination"]
    ELSE [status |-> "safe", statusLabel |-> "Safe Level"]

getPollutionStatus(hpi, mi, cd) ==
    IF Gt(hpi, Fin(100, 1)) \/ Gt(mi, Fin(15, 10)) \/ Gt(cd, Fin(3, 1))
    THEN [status |-> "danger", statusLabel |-> "High Contamination"]
    ELSE IF Gt(hpi, Fin(50, 1)) \/ Gt(mi, Fin(1, 1)) \/ Gt(cd, Fin(15, 10))
    THEN [status |-> "moderate", statusLabel |-> "Moderate Contamination"]
    ELSE [status |-> "safe", statusLabel |-> "Safe Level"]

----------------------------------------------------------------------------
(* Sample processor *)

\* calculatePollutionIndices, mutated: the hpi drifts with the number of calls
\* made before.
calculatePollutionIndicesDrifting(m) ==
    LET hpi == Add(calculateHPI(m), Fin(Len(earlier), 1))
        mi == calculateMI(m)
        cd == calculateCd(m)
        s == getPollutionStatus(hpi, mi, cd)
    IN  [hpi |-> ToFixed(hpi, 2), mi |-> ToFixed(mi, 2), cd |-> ToFixed(cd, 2),
         status |-> s.status, statusLabel |-> s.statusLabel]

calculatePollutionIndices(m) ==
    LET hpi == calculateHPI(m)
        mi == calculateMI(m)
        cd == calculateCd(m)
        s == getPollutionStatus(hpi, mi, cd)
    IN  [hpi |-> ToFixed(hpi, 2), mi |-> ToFixed(mi, 2), cd |-> ToFixed(cd, 2),
         status |-> s.status, statusLabel |-> s.statusLabel]

----------------------------------------------------------------------------
(* Critical-metal finder *)

\* The forEach of getMostCriticalMetal, mutated: a later metal with an equal
\* ratio replaces the earlier one.
RECURSIVE criticalLoopLastWins(_, _, _, _)
criticalLoopLastWins(m, i, maxRatio, criticalMetal) ==
    IF i > Len(metalKeys) THEN <<maxRatio, criticalMetal>>
    ELSE LET metal == metalKeys[i]
             ratio == Div(m[metal], STANDARDS[metal])
         IN  IF Ge(ratio, maxRatio)
             THEN criticalLoopLastWins(m, i + 1, ratio, metal)
             ELSE criticalLoopLastWins(m, i + 1, maxRatio, criticalMetal)

\* The forEach of getMostCriticalMetal from key i on: <<maxRatio, criticalMetal>>.
RECURSIVE criticalLoop(_, _, _, _)
criticalLoop(m, i, maxRatio, criticalMetal) ==
    IF i > Len(metalKeys) THEN <<maxRatio, criticalMetal>>
    ELSE LET metal == metalKeys[i]
             ratio == Div(m[metal], STANDARDS[metal])
         IN  IF Gt(ratio, maxRatio)
             THEN criticalLoop(m, i + 1, ratio, metal)
             ELSE criticalLoop(m, i + 1, maxRatio, criticalMetal)

\* criticalMetal.charAt(0).toUpperCase() + criticalMetal.slice(1), on the four keys
Capitalize ==
    [lead |-> "Lead", cadmium |-> "Cadmium", arsenic |-> "Arsenic", chromium |-> "Chromium"]

getMostCriticalMetal(m) ==
    LET r == criticalLoop(m, 1, Zero, "lead")
    IN  [metal |-> Capitalize[r[2]],
         ratio |-> ToFixed(r[1], 2),
         exceedsStandard |-> Gt(r[1], Fin(1, 1))]

----------------------------------------------------------------------------
(* Dataset aggregator *)

\* results.filter(r => r.status === st).length
CountStatus(rs, st) == Cardinality({i \in 1..Len(rs) : rs[i].status = st})

\* results.reduce((sum, r) => sum + r[f], 0), from element i on
RECURSIVE SumField(_, _, _, _)
SumField(rs, f, i, sum) ==
    IF i > Len(rs) THEN sum ELSE SumField(rs, f, i + 1, Add(sum, rs[i][f]))

\* Math.max(...results.map(r => r[f])), from element i on: -Infinity for no
\* argument, NaN as soon as one argument is NaN
RECURSIVE MathMax(_, _, _, _)
MathMax(rs, f, i, best) ==
    IF i > Len(rs) THEN best
    ELSE IF IsNaN(best) \/ IsNaN(rs[i][f]) THEN MathMax(rs, f, i + 1, NaN)
    ELSE MathMax(rs, f, i + 1, IF Gt(rs[i][f], best) THEN rs[i][f] ELSE best)

\* The percentage, mutated: the share is not multiplied by 100.
PercentageOfOne(count, total) == ToFixed(Div(Fin(count, 1), Fin(total, 1)), 1)

\* The percentage, mutated: cut after the first decimal instead of rounded.
PercentageCut(count, total) ==
    ToFixedTruncating(Mul(Div(Fin(count, 1), Fin(total, 1)), Fin(100, 1)), 1)

\* Number(((count / total) * 100).toFixed(1))
Percentage(count, total) ==
    ToFixed(Mul(Div(Fin(count, 1), Fin(total, 1)), Fin(100, 1)), 1)

\* generateSummaryStats, mutated: the moderate filter tests status !== 'safe'.
generateSummaryStatsLooseFilter(rs) ==
    LET total == Len(rs)
        safe == CountStatus(rs, "safe")
        moderate == total - safe
        danger == CountStatus(rs, "danger")
    IN  [total |-> total,
         distribution |->
            [safe |-> [count |-> safe, percentage |-> Percentage(safe, total)],
             moderate |-> [count |-> moderate, percentage |-> Percentage(moderate, total)],
             danger |-> [count |-> danger, percentage |-> Percentage(danger, total)]],
         averages |->
            [hpi |-> ToFixed(Div(SumField(rs, "hpi", 1, Zero), Fin(total, 1)), 2),
             mi |-> ToFixed(Div(SumField(rs, "mi", 1, Zero), Fin(total, 1)), 2),
             cd |-> ToFixed(Div(SumField(rs, "cd", 1, Zero), Fin(total, 1)), 2)],
         maximums |->
            [hpi |-> ToFixed(MathMax(rs, "hpi", 1, NegInf), 2),
             mi |-> ToFixed(MathMax(rs, "mi", 1, NegInf), 2),
             cd |-> ToFixed(MathMax(rs, "cd", 1, NegInf), 2)]]

generateSummaryStats(rs) ==
    LET total == Len(rs)
        safe == CountStatus(rs, "safe")
        moderate == CountStatus(rs, "moderate")
        danger == CountStatus(rs, "danger")
        avgHPI == Div(SumField(rs, "hpi", 1, Zero), Fin(total, 1))
        avgMI == Div(SumField(rs, "mi", 1, Zero), Fin(total, 1))
        avgCd == Div(SumField(rs, "cd", 1, Zero), Fin(total, 1))
        maxHPI == MathMax(rs, "hpi", 1, NegInf)
        maxMI == MathMax(rs, "mi", 1, NegInf)
        maxCd == MathMax(rs, "cd", 1, NegInf)
    IN  [total |-> total,
         distribution |->
            [safe |-> [count |-> safe, percentage |-> Percentage(safe, total)],
             moderate |-> [count |-> moderate, percentage |-> Percentage(moderate, total)],
             danger |-> [count |-> danger, percentage |-> Percentage(danger, total)]],
         averages |->
            [hpi |-> ToFixed(avgHPI, 2), mi |-> ToFixed(avgMI, 2), cd |-> ToFixed(avgCd, 2)],
         maximums |->
            [hpi |-> ToFixed(maxHPI, 2), mi |-> ToFixed(maxMI, 2), cd |-> ToFixed(maxCd, 2)]]

----------------------------------------------------------------------------
(* Index page: analyzeData *)

\* null, and an array, as a useState value or a prop
Null == [kind |-> "null"]

Array(items) == [kind |-> "array", items |-> items]

\* An array entry that is not an object: reading a property of it throws.
Undefined == [kind |-> "undefined"]

\* const metalConcentrations = {lead: sample.lead, ...}
metalConcentrations(sample) ==
    [lead |-> sample.lead, cadmium |-> sample.cadmium,
     arsenic |-> sample.arsenic, chromium |-> sample.chromium]

\* The callback of uploadedData.map, mutated: lead and cadmium change places
\* in the concentrations the indices are computed from.
mapSampleSwapping(sample) ==
    [indices |-> calculatePollutionIndices(
                    [lead |-> sample.cadmium, cadmium |-> sample.lead,
                     arsenic |-> sample.arsenic, chromium |-> sample.chromium])]
    @@ sample

\* The callback of uploadedData.map: {...sample, indices}
mapSample(sample) ==
    [indices |-> calculatePollutionIndices(metalConcentrations(sample))] @@ sample

\* uploadedData.map, mutated: an exception ends the loop and what was mapped
\* so far is the result.
RECURSIVE mapLoopKeepingPartial(_, _, _)
mapLoopKeepingPartial(samples, i, mapped) ==
    IF i > Len(samples) THEN [completion |-> "return", value |-> mapped]
    ELSE IF samples[i] = Undefined THEN [completion |-> "return", value |-> mapped]
    ELSE mapLoopKeepingPartial(samples, i + 1, Append(mapped, mapSample(samples[i])))

\* uploadedData.map(sample => ...) from entry i on: the array it returns, or
\* the TypeError of sample.lead on an entry that is not an object.
RECURSIVE mapLoop(_, _, _)
mapLoop(samples, i, mapped) ==
    IF i > Len(samples) THEN [completion |-> "return", value |-> mapped]
    ELSE IF samples[i] = Undefined THEN [completion |-> "throw"]
    ELSE mapLoop(samples, i + 1, Append(mapped, mapSample(samples[i])))

\* handleDataUploaded, mutated: the results of the earlier dataset are kept.
handleDataUploadedKeepingResults(newData) ==
    [uploadedData |-> Array(newData), analysisResults |-> analysisResults]

\* handleDataUploaded: the two state updates, committed together
handleDataUploaded(newData) ==
    [uploadedData |-> Array(newData), analysisResults |-> Null]

\* the condition of the auto-analyze effect, on the state of the render whose
\* commit scheduled it
autoAnalyzeConditionIgnoringFlag(snapshot) ==
    snapshot.uploadedData # Null /\ snapshot.analysisResults = Null

autoAnalyzeCondition(snapshot) ==
    /\ snapshot.uploadedData # Null
    /\ snapshot.analysisResults = Null
    /\ ~snapshot.isAnalyzing

\* analyzeData after its await, on the uploadedData of the render that started
\* it: what it leaves in analysisResults (current when it sets nothing), the
\* toast it issues, and isAnalyzing as finally sets it
analyzeDataAfterAwaitWithoutFinally(captured, current) ==
    LET mapped == mapLoop(captured.items, 1, <<>>)
    IN  IF mapped.completion = "return"
        THEN [analysisResults |-> Array(mapped.value),
              toast |-> "Analysis complete", isAnalyzing |-> FALSE]
        ELSE [analysisResults |-> current,
              toast |-> "Analysis failed", isAnalyzing |-> TRUE]

analyzeDataAfterAwait(captured, current) ==
    LET mapped == mapLoop(captured.items, 1, <<>>)
    IN  IF mapped.completion = "return"
        THEN [analysisResults |-> Array(mapped.value),
              toast |-> "Analysis complete", isAnalyzing |-> FALSE]
        ELSE [analysisResults |-> current,
              toast |-> "Analysis failed", isAnalyzing |-> FALSE]

----------------------------------------------------------------------------
(* Export utilities *)

\* results.filter(r => r.indices.status === 'danger')
filterDanger(rs) == SelectSeq(rs, LAMBDA r : r.indices.status = "danger")

\* the comparator (a, b) => b.indices.hpi - a.indices.hpi as sort reads it: a
\* NaN counts as 0
SortCompare(a, b) ==
    LET v == Sub(b.indices.hpi, a.indices.hpi)
    IN  IF IsNaN(v) THEN Zero ELSE v

\* Array.prototype.sort is stable: item goes in front of the first element that
\* the comparator puts after it
RECURSIVE insertByHpi(_, _)
insertByHpi(sorted, item) ==
    IF sorted = <<>> THEN <<item>>
    ELSE IF Gt(SortCompare(Head(sorted), item), Zero) THEN <<item>> \o sorted
    ELSE <<Head(sorted)>> \o insertByHpi(Tail(sorted), item)

RECURSIVE sortLoop(_, _, _)
sortLoop(items, i, sorted) ==
    IF i > Len(items) THEN sorted
    ELSE sortLoop(items, i + 1, insertByHpi(sorted, items[i]))

sortByHpi(items) == sortLoop(items, 1, <<>>)

\* slice(0, 5)
sliceFive(items) == SubSeq(items, 1, IF Len(items) < 5 THEN Len(items) ELSE 5)

\* generateReportHTML, mutated: the first five danger samples are taken, then
\* sorted.
generateReportHTMLSlicingFirst(rs) ==
    [results |-> rs, criticalSamples |-> sortByHpi(sliceFive(filterDanger(rs)))]

\* generateReportHTML: the samples of the critical-sites table, and the array
\* it was given as the call leaves it (filter copies, sort sorts the copy)
generateReportHTML(rs) ==
    [results |-> rs, criticalSamples |-> sliceFive(sortByHpi(filterDanger(rs)))]

\* exportToCSV(results): what it produces, an alert or the file it downloads
\* (its header line and, for each result, the sampleId that starts its line)
exportToCSV(rs) ==
    IF Len(rs) = 0
    THEN [kind |-> "alert", text |-> "No data to export"]
    ELSE [kind |-> "csv", headers |-> 12, rows |-> [i \in 1..Len(rs) |-> rs[i].sampleId]]

\* StatsDashboard({results}): the collections it passes to generateSummaryStats
\* and the stats it renders, or Null
StatsDashboard(resultsProp) ==
    IF resultsProp = Null \/ Len(resultsProp.items) = 0
    THEN [calls |-> <<>>, stats |-> Null]
    ELSE LET collection == [i \in 1..Len(resultsProp.items) |-> resultsProp.items[i].indices]
         IN  [calls |-> <<collection>>, stats |-> generateSummaryStats(collection)]

\* the render of Index: {analysisResults && <StatsDashboard results={analysisResults} />}
renderIndex(shown) ==
    IF shown = Null THEN [calls |-> <<>>, stats |-> Null] ELSE StatsDashboard(shown)

Window == [kind |-> "window"]

\* exportToPDF(results), window.open returning printWindow: what it produces
\* (an alert or the document it writes) and the array as the call leaves it
exportToPDF(rs, printWindow) ==
    IF Len(rs) = 0
    THEN [output |-> [kind |-> "alert", text |-> "No data to export"], results |-> rs]
    ELSE LET htmlContent == generateReportHTML(rs)
         IN  IF printWindow # Null
             THEN [output |-> [kind |-> "report",
                               criticalSamples |-> htmlContent.criticalSamples],
                   results |-> htmlContent.results]
             ELSE [output |-> [kind |-> "alert",
                               text |-> "Please allow pop-ups to generate the PDF report"],
                   results |-> htmlContent.results]

----------------------------------------------------------------------------
(* DataUpload: validateData *)

\* A cell of the CSV is a text: a sequence of characters.
DecimalDigits == <<"0", "1", "2", "3", "4", "5", "6", "7", "8", "9">>

IsDigit(c) == \E i \in 1..Len(DecimalDigits) : DecimalDigits[i] = c

DigitValue(c) == (CHOOSE i \in 1..Len(DecimalDigits) : DecimalDigits[i] = c) - 1

\* The digits of text from position i on: <<their value, their number>>.
RECURSIVE ReadDigits(_, _, _, _)
ReadDigits(text, i, value, count) ==
    IF i <= Len(text) /\ IsDigit(text[i])
    THEN ReadDigits(text, i + 1, 10 * value + DigitValue(text[i]), count + 1)
    ELSE <<value, count>>

\* parseFloat(text) for a text without white space or exponent: an optional
\* sign, then the longest prefix of the form digits, digits.digits, digits. or
\* .digits; NaN when there is no such prefix.
parseFloat(text) ==
    LET signed == Len(text) > 0 /\ text[1] \in {"-", "+"}
        start == IF signed THEN 2 ELSE 1
        whole == ReadDigits(text, start, 0, 0)
        dot == start + whole[2]
        fraction == IF dot <= Len(text) /\ text[dot] = "."
                    THEN ReadDigits(text, dot + 1, 0, 0) ELSE <<0, 0>>
        magnitude == Add(Fin(whole[1], 1), Fin(fraction[1], Pow10(fraction[2])))
    IN  IF whole[2] + fraction[2] = 0 THEN NaN
        ELSE IF signed /\ text[1] = "-" THEN Neg(magnitude) ELSE magnitude

\* Math.abs(x)
MathAbs(x) == IF IsNaN(x) THEN NaN ELSE [x EXCEPT !.n = Abs(x.n)]

requiredFields ==
    <<"sampleId", "latitude", "longitude", "lead", "cadmium", "arsenic", "chromium">>

\* An error is a record: [text] for a fixed text, [missing] for 'Missing f',
\* [row, rowErrors] for 'Row i: e1, e2'.

\* requiredFields.forEach(...): 'Missing f' for every field whose cell is ''.
\* The rows carry the seven canonical headers, which the key searches of
\* lines 45-47 and 56-62 resolve to themselves.
RECURSIVE missingFields(_, _, _)
missingFields(row, i, rowErrors) ==
    IF i > Len(requiredFields) THEN rowErrors
    ELSE missingFields(row, i + 1,
            IF row[requiredFields[i]] = <<>>
            THEN Append(rowErrors, [missing |-> requiredFields[i]]) ELSE rowErrors)

\* the sample built from a row: String(...) for the id, parseFloat for the rest
sampleOfRow(row) ==
    [sampleId |-> row.sampleId,
     latitude |-> parseFloat(row.latitude), longitude |-> parseFloat(row.longitude),
     lead |-> parseFloat(row.lead), cadmium |-> parseFloat(row.cadmium),
     arsenic |-> parseFloat(row.arsenic), chromium |-> parseFloat(row.chromium)]

\* Validate numeric ranges
rangeErrors(sample) ==
    (IF Gt(MathAbs(sample.latitude), Fin(90, 1)) THEN <<[text |-> "Invalid latitude"]>> ELSE <<>>)
    \o (IF Gt(MathAbs(sample.longitude), Fin(180, 1)) THEN <<[text |-> "Invalid longitude"]>> ELSE <<>>)
    \o (IF \/ Gt(Zero, sample.lead) \/ Gt(Zero, sample.cadmium)
           \/ Gt(Zero, sample.arsenic) \/ Gt(Zero, sample.chromium)
        THEN <<[text |-> "Heavy metal concentrations cannot be negative"]>> ELSE <<>>)

\* data.forEach((row, index) => ...) from row i on
RECURSIVE validateLoop(_, _, _, _)
validateLoop(rows, i, errors, validSamples) ==
    IF i > Len(rows)
    THEN [valid |-> errors = <<>>, errors |-> errors, samples |-> validSamples]
    ELSE LET missing == missingFields(rows[i], 1, <<>>)
             sample == sampleOfRow(rows[i])
             rowErrors == IF missing = <<>> THEN rangeErrors(sample) ELSE missing
         IN  validateLoop(rows, i + 1,
                 IF rowErrors = <<>> THEN errors
                 ELSE Append(errors, [row |-> i, rowErrors |-> rowErrors]),
                 IF rowErrors = <<>> THEN Append(validSamples, sample) ELSE validSamples)

\* validateData, mutated: a file without rows is valid.
validateDataAcceptingEmpty(rows) == validateLoop(rows, 1, <<>>, <<>>)

validateData(rows) ==
    IF rows = <<>>
    THEN [valid |-> FALSE, errors |-> <<[text |-> "File is empty or invalid"]>>, samples |-> <<>>]
    ELSE validateLoop(rows, 1, <<>>, <<>>)

(* DataUpload: handleFile *)

\* String.prototype.toLowerCase on one character, for the letters of the file
\* names below
LowerCaseOf(char) ==
    CASE char = "A" -> "a" [] char = "C" -> "c" [] char = "S" -> "s"
      [] char = "T" -> "t" [] char = "V" -> "v" [] char = "X" -> "x"
      [] OTHER -> char

toLowerCase(text) == [i \in 1..Len(text) |-> LowerCaseOf(text[i])]

endsWith(text, suffix) ==
    /\ Len(text) >= Len(suffix)
    /\ SubSeq(text, Len(text) - Len(suffix) + 1, Len(text)) = suffix

\* errors.slice(0, 5)
FirstFive(errors) == SubSeq(errors, 1, IF Len(errors) < 5 THEN Len(errors) ELSE 5)

NotDelivered == [kind |-> "none"]

\* handleFile after its await, on a file whose text was read: the uploadStatus
\* and errorMessage it sets and the samples it passes to onDataUploaded
handleFileAfterAwaitDeliveringValidRows(name, rows) ==
    IF endsWith(toLowerCase(name), <<".", "c", "s", "v">>)
    THEN LET validation == validateData(rows)
         IN  IF validation.samples # <<>>
             THEN [uploadStatus |-> "success", errorMessage |-> <<>>,
                   delivered |-> Array(validation.samples),
                   toast |-> "Data uploaded successfully"]
             ELSE [uploadStatus |-> "error",
                   errorMessage |-> FirstFive(validation.errors),
                   delivered |-> NotDelivered,
                   toast |-> "Data validation failed"]
    ELSE [uploadStatus |-> "error",
          errorMessage |-> <<[text |-> "Unsupported file format. Please use CSV files."]>>,
          delivered |-> NotDelivered,
          toast |-> "Upload failed"]

handleFileAfterAwait(name, rows) ==
    IF endsWith(toLowerCase(name), <<".", "c", "s", "v">>)
    THEN LET validation == validateData(rows)
         IN  IF validation.valid
             THEN [uploadStatus |-> "success", errorMessage |-> <<>>,
                   delivered |-> Array(validation.samples),
                   toast |-> "Data uploaded successfully"]
             ELSE [uploadStatus |-> "error",
                   errorMessage |-> FirstFive(validation.errors),
                   delivered |-> NotDelivered,
                   toast |-> "Data validation failed"]
    ELSE [uploadStatus |-> "error",
          errorMessage |-> <<[text |-> "Unsupported file format. Please use CSV files."]>>,
          delivered |-> NotDelivered,
          toast |-> "Upload failed"]

----------------------------------------------------------------------------
(* Inputs *)

\* The inputs are the samples whose concentrations are 0 .. MaxLevel times the
\* metal's standard, and the named samples below.  On every one of them the
\* double arithmetic of the source and the exact arithmetic of this model give
\* the same stored hpi, mi, cd and the same status.
MaxLevel == 3

\* The collection handed to the aggregator holds at most MaxResults results.
MaxResults == 4

\* k times the metal's standard, in mg/L
Level(metal, k) == Mul(Fin(k, 1), STANDARDS[metal])

\* u millionths of a mg/L
MicroMg(u) == Fin(u, 1000000)

Sample(l, c, a, r) == [lead |-> l, cadmium |-> c, arsenic |-> a, chromium |-> r]

GridSamples ==
    {Sample(Level("lead", l), Level("cadmium", c), Level("arsenic", a), Level("chromium", r)) :
        l \in 0..MaxLevel, c \in 0..MaxLevel, a \in 0..MaxLevel, r \in 0..MaxLevel}

\* {lead: 0.05, cadmium: 0.01, arsenic: 0.02, chromium: 0.03}
ExampleSample == Sample(MicroMg(50000), MicroMg(10000), MicroMg(20000), MicroMg(30000))

\* lead alone at three times its standard, and a millionth of a mg/L above that
LeadAtThree == Sample(MicroMg(30000), Zero, Zero, Zero)

LeadAboveThree == Sample(MicroMg(30001), Zero, Zero, Zero)

\* lead alone at half its standard: MI is 0.125, half way between 0.12 and 0.13
HalfLead == Sample(MicroMg(5000), Zero, Zero, Zero)

\* every metal at half its standard
AllHalf == Sample(MicroMg(5000), MicroMg(1500), MicroMg(5000), MicroMg(25000))

\* lead at twice its standard, the others below or at theirs
LeadOnlyAbove == Sample(MicroMg(20000), MicroMg(1500), MicroMg(5000), MicroMg(50000))

Samples ==
    GridSamples \cup {ExampleSample, LeadAtThree, LeadAboveThree, HalfLead, AllHalf, LeadOnlyAbove}

\* every metal at k times its standard
AtLevel(k) ==
    Sample(Level("lead", k), Level("cadmium", k), Level("arsenic", k), Level("chromium", k))

\* every metal at two fifths of its standard
TwoFifths == Sample(MicroMg(4000), MicroMg(1200), MicroMg(4000), MicroMg(20000))

\* The samples a dataset is made of: one safe (0, 0, 0), one moderate
\* (0, 0.4, 1.6) and two in danger, (0, 1, 4) and (100, 2, 8).  Every stored
\* index is a multiple of 0.04, so that no average over fewer than eight
\* results falls half way between two hundredths, where the double quotient
\* and the exact one can round apart.
DatasetSamples == {AtLevel(0), TwoFifths, AtLevel(1), AtLevel(2)}

\* lead alone, 0.4 % above its standard: the ratio is 1.004
LeadJustAbove == Sample(MicroMg(10040), Zero, Zero, Zero)

\* The samples handed to getMostCriticalMetal: every metal at 0, 1 or 2 times
\* its standard, where the double quotient is the exact ratio, and two named ones.
FinderSamples ==
    {Sample(Level("lead", l), Level("cadmium", c), Level("arsenic", a), Level("chromium", r)) :
        l \in 0..2, c \in 0..2, a \in 0..2, r \in 0..2}
    \cup {LeadJustAbove, ExampleSample}

\* Concentrations as they come when nothing has checked them: NaN, the
\* standard taken negative, 0, the standard, three times the standard.
UncheckedValues(metal) ==
    {NaN, Neg(STANDARDS[metal]), Zero, STANDARDS[metal], Level(metal, 3)}

UncheckedSamples ==
    {Sample(l, c, a, r) :
        l \in UncheckedValues("lead"), c \in UncheckedValues("cadmium"),
        a \in UncheckedValues("arsenic"), r \in UncheckedValues("chromium")}

\* The texts of a CSV cell: for a concentration 0, 0.02, -5 and a word; for a
\* latitude 45, 95, -90 and a word; for a longitude 180, 181, a word and the
\* empty cell.
ConcentrationTexts == {<<"0">>, <<"0", ".", "0", "2">>, <<"-", "5">>, <<"x">>}

LatitudeTexts == {<<"4", "5">>, <<"9", "5">>, <<"-", "9", "0">>, <<"x">>}

LongitudeTexts == {<<"1", "8", "0">>, <<"1", "8", "1">>, <<"x">>, <<>>}

Row(id, lat, lon, l, c, a, r) ==
    [sampleId |-> id, latitude |-> lat, longitude |-> lon,
     lead |-> l, cadmium |-> c, arsenic |-> a, chromium |-> r]

Rows ==
    {Row(<<"S", "1">>, lat, lon, l, c, a, r) :
        lat \in LatitudeTexts, lon \in LongitudeTexts,
        l \in ConcentrationTexts, c \in ConcentrationTexts,
        a \in ConcentrationTexts, r \in ConcentrationTexts}

GoodRow ==
    Row(<<"S", "2">>, <<"4", "5">>, <<"1", "8", "0">>,
        <<"0", ".", "0", "2">>, <<"0">>, <<"0">>, <<"0">>)

WordRow == [GoodRow EXCEPT !.sampleId = <<"S", "3">>, !.lead = <<"x">>]

NegativeRow == [GoodRow EXCEPT !.sampleId = <<"S", "4">>, !.cadmium = <<"-", "5">>]

\* The first file handled is empty or has one row of Rows; the files handled
\* after it have two rows.
Files == {<<>>} \cup {<<row>> : row \in Rows}

\* file names: two that end in .csv once lowered, three that do not
CsvName == <<"a", ".", "c", "s", "v">>

UpperCsvName == <<"A", ".", "C", "S", "V">>

OtherNames ==
    {<<"a", ".", "t", "x", "t">>, <<"c", "s", "v">>, <<"a", ".", "c", "s", "v", ".", "x">>}

\* the files of the other names, were they parsed
OtherFiles == {<<>>, <<GoodRow>>, <<GoodRow, GoodRow>>}

LaterFiles ==
    {<<first, second>> : first \in {GoodRow, WordRow}, second \in {GoodRow, WordRow, NegativeRow}}

\* one sample of each tier: safe, moderate, danger
TierSamples == {AtLevel(0), TwoFifths, AtLevel(2)}

MaxCollected == 6

\* Three sample records, as validateData builds them.
SampleData(id, lat, lon, m) ==
    [sampleId |-> id, latitude |-> lat, longitude |-> lon,
     lead |-> m.lead, cadmium |-> m.cadmium, arsenic |-> m.arsenic, chromium |-> m.chromium]

SampleS1 == SampleData("S1", Fin(10, 1), Fin(20, 1), AtLevel(0))

SampleS2 == SampleData("S2", Fin(-455, 10), Fin(170, 1), AtLevel(2))

SampleS3 == SampleData("S3", Zero, Zero, TwoFifths)

\* The arrays handleDataUploaded is called with.  The last one holds an entry
\* that is not an object; DataUpload delivers no such array, the type of the
\* parameter is all that excludes it.
Datasets ==
    {<<SampleS1, SampleS2>>, <<SampleS2, SampleS1>>, <<SampleS3>>, <<SampleS1, Undefined>>}

\* The uploads followed.
MaxUploads == 3

\* The datasets reports are made of: up to MaxSites samples, each safe
\* (hpi 0), danger with hpi 100 or danger with hpi 200, named by their place.
MaxSites == 6

SitePool == {AtLevel(0), AtLevel(2), AtLevel(3)}

SiteIds == <<"S1", "S2", "S3", "S4", "S5", "S6", "S7", "S8">>

ReportDatasets ==
    UNION {{[i \in 1..n |-> SampleData(SiteIds[i], Fin(10, 1), Fin(20, 1), choice[i])] :
               choice \in [1..n -> SitePool]} : n \in 1..MaxSites}

\* The exports followed.
MaxExports == 2

\* The files handed to the application: without rows, with one or two valid
\* rows, with a valid and an invalid row, and one that is not a .csv.
AppFiles ==
    {[name |-> CsvName, rows |-> <<>>],
     [name |-> CsvName, rows |-> <<GoodRow>>],
     [name |-> CsvName, rows |-> <<GoodRow, GoodRow>>],
     [name |-> CsvName, rows |-> <<GoodRow, NegativeRow>>],
     [name |-> <<"a", ".", "t", "x", "t">>, rows |-> <<GoodRow>>]}

\* The samples of repeated calls, and the number of calls followed.
RepeatSamples == {AtLevel(0), AtLevel(2), ExampleSample, LeadAtThree, LeadAboveThree, HalfLead}

MaxCalls == 3

\* The values getPollutionStatus is called with: each threshold, a hundredth
\* above it, zero and NaN; and mi = 2, cd = 8, which together with hpi = 100
\* are the indices of the sample with every metal at twice its standard.
HpiValues == {Zero, Fin(50, 1), Fin(5001, 100), Fin(100, 1), Fin(10001, 100), NaN}

MiValues == {Zero, Fin(1, 1), Fin(101, 100), Fin(15, 10), Fin(151, 100), Fin(2, 1), NaN}

CdValues == {Zero, Fin(15, 10), Fin(151, 100), Fin(3, 1), Fin(301, 100), Fin(8, 1), NaN}

----------------------------------------------------------------------------
(* State *)

NoIndices == [status |-> "none"]

NoVerdict == [status |-> "none"]

NoSummary == [completion |-> "none"]

IdleProcessor == metals = Sample(Zero, Zero, Zero, Zero) /\ indices = NoIndices

IdleClassifier == hpiArg = Zero /\ miArg = Zero /\ cdArg = Zero /\ verdict = NoVerdict

IdleAggregator == results = <<>> /\ summary = NoSummary

NoCritical == [metal |-> "none"]

IdleFinder == critical = NoCritical

IdleHistory == earlier = <<>>

NoEffect == [kind |-> "none"]

NoRun == [kind |-> "none"]

IdleUpload ==
    /\ fileName = <<>> /\ data = <<>>
    /\ uploadStatus = "idle" /\ errorMessage = <<>> /\ delivered = NotDelivered

\* useState(null), useState(null), useState(false): lines 41-43
IdlePage ==
    /\ uploadedData = Null /\ analysisResults = Null /\ isAnalyzing = FALSE
    /\ effect = NoEffect /\ run = NoRun /\ toasts = <<>> /\ outputs = <<>>

IdleApplication == IdleFinder /\ IdleHistory /\ IdleUpload /\ IdlePage

(* Sample processor: one sample in, one PollutionIndices out. *)

Init ==
    /\ metals \in Samples /\ indices = NoIndices /\ IdleClassifier /\ IdleAggregator
    /\ IdleApplication

Process ==
    /\ indices = NoIndices
    /\ indices' = calculatePollutionIndices(metals)
    /\ UNCHANGED <<metals, hpiArg, miArg, cdArg, verdict, results, summary, critical, earlier, uploadVars, pageVars>>

NextSample ==
    /\ indices # NoIndices
    /\ \E m \in Samples : metals' = m
    /\ indices' = NoIndices
    /\ UNCHANGED <<hpiArg, miArg, cdArg, verdict, results, summary, critical, earlier, uploadVars, pageVars>>

Next == Process \/ NextSample

Spec == Init /\ [][Next]_vars

(* Sample processor on unchecked input: NaN and negative concentrations too. *)

InitUnchecked ==
    /\ metals \in UncheckedSamples /\ indices = NoIndices
    /\ IdleClassifier /\ IdleAggregator /\ IdleApplication

NextUncheckedSample ==
    /\ indices # NoIndices
    /\ \E m \in UncheckedSamples : metals' = m
    /\ indices' = NoIndices
    /\ UNCHANGED <<hpiArg, miArg, cdArg, verdict, results, summary, critical, earlier,
                   uploadVars, pageVars>>

NextUnchecked == Process \/ NextUncheckedSample

SpecUnchecked == InitUnchecked /\ [][NextUnchecked]_vars

(* Classifier: getPollutionStatus on its own, called with any three numbers. *)

InitClassifier ==
    /\ hpiArg \in HpiValues /\ miArg \in MiValues /\ cdArg \in CdValues
    /\ verdict = NoVerdict
    /\ IdleProcessor /\ IdleAggregator /\ IdleApplication

Classify ==
    /\ verdict = NoVerdict
    /\ verdict' = getPollutionStatus(hpiArg, miArg, cdArg)
    /\ UNCHANGED <<metals, indices, hpiArg, miArg, cdArg, results, summary, critical, earlier, uploadVars, pageVars>>

NextArguments ==
    /\ verdict # NoVerdict
    /\ \E h \in HpiValues, m \in MiValues, c \in CdValues :
          hpiArg' = h /\ miArg' = m /\ cdArg' = c
    /\ verdict' = NoVerdict
    /\ UNCHANGED <<metals, indices, results, summary, critical, earlier, uploadVars, pageVars>>

NextClassifier == Classify \/ NextArguments

SpecClassifier == InitClassifier /\ [][NextClassifier]_vars

(* DataUpload: a CSV file is handed to handleFile, read, validated, and
   delivered or refused.  A file is handed over when the one before it has been
   dealt with. *)

InitUpload ==
    /\ IdleProcessor /\ IdleClassifier /\ IdleAggregator /\ IdleApplication

\* handleFile up to its await
HandleFile ==
    /\ uploadStatus # "uploading"
    /\ \/ /\ fileName' = CsvName
          /\ \E file \in (IF uploadStatus = "idle" THEN Files ELSE LaterFiles) : data' = file
       \/ /\ fileName' \in {UpperCsvName} \cup OtherNames
          /\ data' \in OtherFiles
    /\ uploadStatus' = "uploading"
    /\ errorMessage' = <<>>
    /\ delivered' = NotDelivered
    /\ UNCHANGED <<metals, indices, hpiArg, miArg, cdArg, verdict, results, summary,
                   critical, earlier, pageVars>>

\* handleFile after its await: validateData, then onDataUploaded or the error
FileRead ==
    /\ uploadStatus = "uploading"
    /\ LET after == handleFileAfterAwait(fileName, data)
       IN  /\ uploadStatus' = after.uploadStatus
           /\ errorMessage' = after.errorMessage
           /\ delivered' = after.delivered
    /\ UNCHANGED <<fileName, data>>
    /\ UNCHANGED <<metals, indices, hpiArg, miArg, cdArg, verdict, results, summary,
                   critical, earlier, pageVars>>

\* file.text() rejects (the file can no longer be read): catch, with the
\* message of the rejection
FileReadFails ==
    /\ uploadStatus = "uploading"
    /\ uploadStatus' = "error"
    /\ errorMessage' = <<[text |-> "error.message"]>>
    /\ UNCHANGED <<fileName, data, delivered>>
    /\ UNCHANGED <<metals, indices, hpiArg, miArg, cdArg, verdict, results, summary,
                   critical, earlier, pageVars>>

NextUpload == HandleFile \/ FileRead \/ FileReadFails

SpecUpload == InitUpload /\ [][NextUpload]_vars

\* file.text() settles: in NextUpload the steps that leave 'uploading' are those
\* of FileRead and FileReadFails, enabled exactly when uploadStatus is 'uploading'
ReadSettles == uploadStatus = "uploading" /\ uploadStatus' \in {"success", "error"}

SpecUploadFair == SpecUpload /\ WF_uploadStatus(ReadSettles)

(* Index page: uploads arrive, the auto-analyze effect runs after each commit,
   and the run it starts finishes when its one-second timer fires.  State
   updates made in one handler are committed together, and the effect of a
   commit has run before the next commit is made. *)

InitPage == IdleProcessor /\ IdleClassifier /\ IdleAggregator /\ IdleApplication

UploadCount ==
    Cardinality({i \in 1..Len(toasts) : toasts[i] = "Data uploaded successfully"})

\* DataUpload.handleFile on a valid file: onDataUploaded(validation.samples),
\* then its toast; the commit schedules the effect, whose closure holds the
\* state of this render.
HandleDataUploaded ==
    /\ UploadCount < MaxUploads
    /\ effect = NoEffect
    /\ \E newData \in Datasets :
          /\ uploadedData' = handleDataUploaded(newData).uploadedData
          /\ analysisResults' = handleDataUploaded(newData).analysisResults
    /\ toasts' = Append(toasts, "Data uploaded successfully")
    /\ effect' = [kind |-> "pending", uploadedData |-> uploadedData',
                  analysisResults |-> analysisResults', isAnalyzing |-> isAnalyzing]
    /\ UNCHANGED <<isAnalyzing, run, outputs>>
    /\ UNCHANGED <<metals, indices, hpiArg, miArg, cdArg, verdict, results, summary,
                   critical, earlier, uploadVars>>

\* The useEffect callback, and analyzeData up to its await.
AutoAnalyze ==
    /\ effect # NoEffect
    /\ effect' = NoEffect
    /\ IF autoAnalyzeCondition(effect)
       THEN /\ isAnalyzing' = TRUE
            /\ run' = [kind |-> "waiting", uploadedData |-> effect.uploadedData]
       ELSE UNCHANGED <<isAnalyzing, run>>
    /\ UNCHANGED <<uploadedData, analysisResults, toasts, outputs>>
    /\ UNCHANGED <<metals, indices, hpiArg, miArg, cdArg, verdict, results, summary,
                   critical, earlier, uploadVars>>

\* analyzeData after its await: the map, then try's tail or catch, then finally.
TimerFires ==
    /\ run # NoRun
    /\ LET after == analyzeDataAfterAwait(run.uploadedData, analysisResults)
       IN  /\ analysisResults' = after.analysisResults
           /\ toasts' = Append(toasts, after.toast)
           /\ isAnalyzing' = after.isAnalyzing
    /\ run' = NoRun
    /\ UNCHANGED <<uploadedData, effect, outputs>>
    /\ UNCHANGED <<metals, indices, hpiArg, miArg, cdArg, verdict, results, summary,
                   critical, earlier, uploadVars>>

NextPage == HandleDataUploaded \/ AutoAnalyze \/ TimerFires

SpecPage == InitPage /\ [][NextPage]_vars

\* the timer of the run in flight elapses and the rest of analyzeData runs: in
\* NextPage these are the steps of TimerFires, which is enabled exactly when a
\* run is in flight
TimerElapses == run # NoRun /\ run' = NoRun

\* The effect of a commit is always flushed and a timer that was set always
\* fires; nothing obliges a user to upload.
SpecPageFair == SpecPage /\ WF_vars(AutoAnalyze) /\ WF_run(TimerElapses)

(* The application: DataUpload hands its samples to the Index page, which
   analyses them, renders the dashboard and exports on request. *)

InitApp == IdleProcessor /\ IdleClassifier /\ IdleAggregator /\ IdleApplication

UploadToasts == {"Data uploaded successfully", "Data validation failed", "Upload failed"}

\* the handleFile calls made so far
FilesHandled ==
    Cardinality({i \in 1..Len(toasts) : toasts[i] \in UploadToasts})
        + (IF uploadStatus = "uploading" THEN 1 ELSE 0)

\* handleFile up to its await
HandleAppFile ==
    /\ uploadStatus # "uploading"
    /\ FilesHandled < MaxUploads
    /\ \E file \in AppFiles : fileName' = file.name /\ data' = file.rows
    /\ uploadStatus' = "uploading"
    /\ errorMessage' = <<>>
    /\ delivered' = NotDelivered
    /\ UNCHANGED <<metals, indices, hpiArg, miArg, cdArg, verdict, results, summary,
                   critical, earlier, pageVars>>

\* handleFile after its await; on a valid file onDataUploaded is Index's
\* handleDataUploaded, and the commit renders Index without the dashboard
AppFileRead ==
    /\ uploadStatus = "uploading"
    /\ effect = NoEffect
    /\ \E after \in {handleFileAfterAwait(fileName, data)} :
          /\ uploadStatus' = after.uploadStatus
          /\ errorMessage' = after.errorMessage
          /\ delivered' = after.delivered
          /\ toasts' = Append(toasts, after.toast)
          /\ IF after.delivered # NotDelivered
             THEN \E set \in {handleDataUploaded(after.delivered.items)} :
                  \E rendered \in {renderIndex(set.analysisResults)} :
                     /\ uploadedData' = set.uploadedData
                     /\ analysisResults' = set.analysisResults
                     /\ effect' = [kind |-> "pending", uploadedData |-> set.uploadedData,
                                   analysisResults |-> set.analysisResults,
                                   isAnalyzing |-> isAnalyzing]
                     /\ results' = (IF rendered.calls = <<>> THEN <<>>
                                    ELSE rendered.calls[1])
                     /\ summary' = (IF rendered.calls = <<>> THEN NoSummary
                                    ELSE [completion |-> "return", value |-> rendered.stats])
             ELSE UNCHANGED <<uploadedData, analysisResults, effect, results, summary>>
    /\ UNCHANGED <<fileName, data, isAnalyzing, run, outputs>>
    /\ UNCHANGED <<metals, indices, hpiArg, miArg, cdArg, verdict, critical, earlier>>

\* analyzeData after its await, and the render of Index that follows
AppTimerFires ==
    /\ run # NoRun
    /\ \E after \in {analyzeDataAfterAwait(run.uploadedData, analysisResults)} :
       \E rendered \in {renderIndex(after.analysisResults)} :
          /\ analysisResults' = after.analysisResults
          /\ toasts' = Append(toasts, after.toast)
          /\ isAnalyzing' = after.isAnalyzing
          /\ results' = (IF rendered.calls = <<>> THEN <<>> ELSE rendered.calls[1])
          /\ summary' = (IF rendered.calls = <<>> THEN NoSummary
                         ELSE [completion |-> "return", value |-> rendered.stats])
    /\ run' = NoRun
    /\ UNCHANGED <<uploadedData, effect, outputs>>
    /\ UNCHANGED <<metals, indices, hpiArg, miArg, cdArg, verdict, critical, earlier,
                   uploadVars>>

\* handleExportCSV
HandleExportCSV ==
    /\ Len(outputs) < MaxExports
    /\ analysisResults # Null
    /\ outputs' = Append(outputs, exportToCSV(analysisResults.items))
    /\ toasts' = Append(toasts, "Export successful")
    /\ UNCHANGED <<uploadedData, analysisResults, isAnalyzing, effect, run>>
    /\ UNCHANGED <<metals, indices, hpiArg, miArg, cdArg, verdict, results, summary,
                   critical, earlier, uploadVars>>

(* Index page after an upload and its analysis: the report is exported. *)

InitReport ==
    /\ IdleProcessor /\ IdleClassifier /\ IdleAggregator
    /\ IdleFinder /\ IdleHistory /\ IdleUpload
    /\ \E dataset \in ReportDatasets :
          /\ uploadedData = Array(dataset)
          /\ analysisResults = analyzeDataAfterAwait(Array(dataset), Null).analysisResults
    /\ isAnalyzing = FALSE /\ effect = NoEffect /\ run = NoRun
    /\ toasts = <<"Data uploaded successfully", "Analysis complete">>
    /\ outputs = <<>>

\* handleExportPDF
HandleExportPDF ==
    /\ Len(outputs) < MaxExports
    /\ analysisResults # Null
    /\ \E printWindow \in {Null, Window} :
          LET exported == exportToPDF(analysisResults.items, printWindow)
          IN  /\ outputs' = Append(outputs, exported.output)
              /\ analysisResults' = Array(exported.results)
    /\ toasts' = Append(toasts, "Generating report")
    /\ UNCHANGED <<uploadedData, isAnalyzing, effect, run>>
    /\ UNCHANGED <<metals, indices, hpiArg, miArg, cdArg, verdict, results, summary,
                   critical, earlier, uploadVars>>

NextReport == HandleExportPDF

SpecReport == InitReport /\ [][NextReport]_vars

NextApp ==
    \/ HandleAppFile \/ AppFileRead \/ AutoAnalyze \/ AppTimerFires
    \/ HandleExportCSV \/ HandleExportPDF

SpecApp == InitApp /\ [][NextApp]_vars

(* Critical-metal finder: one sample in, one {metal, ratio, exceedsStandard} out. *)

InitFinder ==
    /\ metals \in FinderSamples /\ indices = NoIndices
    /\ IdleClassifier /\ IdleAggregator /\ IdleApplication

FindCritical ==
    /\ critical = NoCritical
    /\ critical' = getMostCriticalMetal(metals)
    /\ UNCHANGED <<metals, indices, hpiArg, miArg, cdArg, verdict, results, summary,
                   earlier, uploadVars, pageVars>>

NextFinderSample ==
    /\ critical # NoCritical
    /\ \E m \in FinderSamples : metals' = m
    /\ critical' = NoCritical
    /\ UNCHANGED <<indices, hpiArg, miArg, cdArg, verdict, results, summary,
                   earlier, uploadVars, pageVars>>

NextFinder == FindCritical \/ NextFinderSample

SpecFinder == InitFinder /\ [][NextFinder]_vars

(* Repeated calls: the sample processor is called again and again, and every
   call is written down. *)

InitRepeat ==
    /\ metals \in RepeatSamples /\ indices = NoIndices
    /\ IdleClassifier /\ IdleAggregator /\ IdleApplication

ProcessAgain ==
    /\ indices = NoIndices
    /\ Len(earlier) < MaxCalls
    /\ indices' = calculatePollutionIndices(metals)
    /\ earlier' = Append(earlier, <<metals, indices'>>)
    /\ UNCHANGED <<metals, hpiArg, miArg, cdArg, verdict, results, summary, critical,
                   uploadVars, pageVars>>

NextRepeat ==
    /\ indices # NoIndices
    /\ \E m \in RepeatSamples : metals' = m
    /\ indices' = NoIndices
    /\ UNCHANGED <<hpiArg, miArg, cdArg, verdict, results, summary, critical, earlier,
                   uploadVars, pageVars>>

NextRepeated == ProcessAgain \/ NextRepeat

SpecRepeat == InitRepeat /\ [][NextRepeated]_vars

(* Sample processor on two samples, the second with no concentration below
   that of the first. *)

\* every concentration of higher is >= the same concentration of lower, both
\* in whole millionths of a mg/L
Dominates(higher, lower) ==
    \A k \in Metal :
        higher[k].n * (1000000 \div higher[k].d) >= lower[k].n * (1000000 \div lower[k].d)

InitPair ==
    /\ metals \in Samples /\ indices = NoIndices
    /\ IdleClassifier /\ IdleAggregator /\ IdleApplication

NextAtLeast ==
    /\ indices # NoIndices
    /\ Len(earlier) < 2
    /\ \E m \in Samples : Dominates(m, metals) /\ metals' = m
    /\ indices' = NoIndices
    /\ UNCHANGED <<hpiArg, miArg, cdArg, verdict, results, summary, critical, earlier,
                   uploadVars, pageVars>>

NextPair == ProcessAgain \/ NextAtLeast

SpecPair == InitPair /\ [][NextPair]_vars

(* Aggregator: a collection of results is built up and summarised. *)

InitSummary == IdleProcessor /\ IdleClassifier /\ IdleAggregator /\ IdleApplication

Collect ==
    /\ Len(results) < MaxResults
    /\ \E m \in DatasetSamples : results' = Append(results, calculatePollutionIndices(m))
    /\ summary' = NoSummary
    /\ UNCHANGED <<metals, indices, hpiArg, miArg, cdArg, verdict, critical, earlier, uploadVars, pageVars>>

\* The call returns whatever the body computes: no statement of the body throws.
Summarize ==
    /\ summary = NoSummary
    /\ summary' = [completion |-> "return", value |-> generateSummaryStats(results)]
    /\ UNCHANGED <<metals, indices, hpiArg, miArg, cdArg, verdict, results, critical, earlier, uploadVars, pageVars>>

Discard ==
    /\ summary # NoSummary
    /\ results' = <<>>
    /\ summary' = NoSummary
    /\ UNCHANGED <<metals, indices, hpiArg, miArg, cdArg, verdict, critical, earlier, uploadVars, pageVars>>

NextSummary == Collect \/ Summarize \/ Discard

SpecSummary == InitSummary /\ [][NextSummary]_vars

(* Aggregator on collections of up to MaxCollected results, drawn from one
   sample of each tier. *)

CollectOfTiers ==
    /\ Len(results) < MaxCollected
    /\ \E m \in TierSamples : results' = Append(results, calculatePollutionIndices(m))
    /\ summary' = NoSummary
    /\ UNCHANGED <<metals, indices, hpiArg, miArg, cdArg, verdict, critical, earlier, uploadVars, pageVars>>

NextTiers == CollectOfTiers \/ Summarize \/ Discard

SpecTiers == InitSummary /\ [][NextTiers]_vars

----------------------------------------------------------------------------
(* Properties *)

Computed == indices # NoIndices

Classified == verdict # NoVerdict

Returned == summary # NoSummary /\ summary.completion = "return"

\* A concentration in whole millionths of a mg/L.
Micro(x) == x.n * (1000000 \div x.d)

Excess(u, s) == IF u > s THEN u - s ELSE 0

\* Cd in closed form: lead/0.01 + cadmium/0.003 + arsenic/0.01 + chromium/0.05,
\* over the common denominator 150000 of the four ratios in millionths.
ClosedCd(m) ==
    Fin(15 * Micro(m.lead) + 50 * Micro(m.cadmium)
          + 15 * Micro(m.arsenic) + 3 * Micro(m.chromium), 150000)

\* MI in closed form: a quarter of Cd.
ClosedMI(m) == Fin(ClosedCd(m).n, 4 * ClosedCd(m).d)

\* HPI in closed form: (0.9 Q_lead + 1.0 Q_cadmium + 1.0 Q_arsenic + 0.8 Q_chromium) / 3.7
\* with Q = 100 (C - S) / S above the standard and 0 otherwise, over the common
\* denominator 37 * 1500.
ClosedHPI(m) ==
    Fin(135 * Excess(Micro(m.lead), 10000) + 500 * Excess(Micro(m.cadmium), 3000)
          + 150 * Excess(Micro(m.arsenic), 10000) + 24 * Excess(Micro(m.chromium), 50000),
        55500)

\* x > tenths / 10 as JavaScript compares numbers: never for NaN.
Exceeds(x, tenths) ==
    \/ x.k = "inf" /\ x.n > 0
    \/ IsFinite(x) /\ 10 * x.n > tenths * x.d

DangerCase == Exceeds(hpiArg, 1000) \/ Exceeds(miArg, 15) \/ Exceeds(cdArg, 30)

ModerateCase == Exceeds(hpiArg, 500) \/ Exceeds(miArg, 10) \/ Exceeds(cdArg, 15)

AtOrBelowStandard(m) == \A k \in Metal : ~Gt(m[k], STANDARDS[k])

AllAtStandard(m) == \A k \in Metal : m[k] = STANDARDS[k]

\* stored is exact rounded to hundredths: within half a hundredth of it, and
\* the one further from zero when exact lies half way between two hundredths.
RoundedToHundredths(stored, exact) ==
    /\ IsFinite(stored) /\ 100 % stored.d = 0
    /\ stored.n = 0 \/ Sign(stored.n) = Sign(exact.n)
    /\ LET s == Abs(stored.n) * (100 \div stored.d)
           a == Abs(exact.n)
       IN  /\ 2 * s * exact.d - 200 * a <= exact.d
           /\ 200 * a - 2 * s * exact.d < exact.d

\* C1: the status of a record returned by calculatePollutionIndices is the
\* classifier's verdict on that record's own hpi, mi and cd.
C1_StatusOfStoredIndices ==
    Computed =>
        getPollutionStatus(indices.hpi, indices.mi, indices.cd)
            = [status |-> indices.status, statusLabel |-> indices.statusLabel]

\* C2: generateSummaryStats called with zero results raises an error and
\* returns no statistics.
C2_EmptyInputRaises ==
    (summary # NoSummary /\ Len(results) = 0) => summary.completion = "throw"

\* C3, as stated: hpi exactly 100.00 is classified moderate, and hpi 100.01
\* danger (read for indices that are numbers, not NaN).
C3_HundredIsModerate ==
    (Classified /\ ~IsNaN(miArg) /\ ~IsNaN(cdArg)) =>
        /\ hpiArg = Fin(100, 1) => verdict.status = "moderate"
        /\ hpiArg = Fin(10001, 100) => verdict.status = "danger"

\* C3, amended: hpi exactly 100.00 is classified moderate, not danger, when
\* neither mi exceeds 1.5 nor cd exceeds 3; hpi 100.01 is classified danger.
C3_HundredAloneIsModerate ==
    Classified =>
        /\ (hpiArg = Fin(100, 1) /\ ~Exceeds(miArg, 15) /\ ~Exceeds(cdArg, 30))
              => verdict.status = "moderate"
        /\ hpiArg = Fin(10001, 100) => verdict.status = "danger"

C3_Witness ==
    /\ Classified /\ hpiArg = Fin(100, 1) /\ miArg = Fin(15, 10) /\ cdArg = Zero
    /\ verdict.status = "moderate"

\* C4: the verdict is danger iff hpi > 100 or mi > 1.5 or cd > 3, otherwise
\* moderate iff hpi > 50 or mi > 1 or cd > 1.5, otherwise safe, each with its
\* label; the comparisons are strict.
C4_Tiers ==
    Classified =>
        /\ DangerCase
              => verdict = [status |-> "danger", statusLabel |-> "High Contamination"]
        /\ (~DangerCase /\ ModerateCase)
              => verdict = [status |-> "moderate", statusLabel |-> "Moderate Contamination"]
        /\ (~DangerCase /\ ~ModerateCase)
              => verdict = [status |-> "safe", statusLabel |-> "Safe Level"]

C4_Witness ==
    /\ Classified
    /\ hpiArg = Fin(100, 1) /\ miArg = Fin(15, 10) /\ cdArg = Fin(3, 1)
    /\ verdict.status = "moderate"

\* C5: when every concentration is at or below its standard, HPI is exactly 0.
C5_BelowStandardHpiZero ==
    AtOrBelowStandard(metals) =>
        /\ calculateHPI(metals) = Zero
        /\ Computed => indices.hpi = Zero

C5_Witness ==
    /\ Computed /\ AtOrBelowStandard(metals)
    /\ \A k \in Metal : Gt(metals[k], Zero) /\ Gt(STANDARDS[k], metals[k])

\* C6: when every concentration equals its standard, MI = 1, Cd = 4 and HPI = 0,
\* unrounded and in the rounded record.
C6_AtStandard ==
    AllAtStandard(metals) =>
        /\ calculateMI(metals) = Fin(1, 1)
        /\ calculateCd(metals) = Fin(4, 1)
        /\ calculateHPI(metals) = Zero
        /\ Computed => (indices.mi = Fin(1, 1) /\ indices.cd = Fin(4, 1) /\ indices.hpi = Zero)

C6_Witness == Computed /\ AllAtStandard(metals) /\ indices.cd = Fin(4, 1)

\* C7: Cd is the unweighted sum of the four ratios Ci/Si and MI a quarter of
\* it; the example sample is stored with cd = 10.93 and status danger.
C7_CdIsRatioSum ==
    /\ calculateCd(metals) = ClosedCd(metals)
    /\ calculateMI(metals) = ClosedMI(metals)
    /\ (Computed /\ metals = ExampleSample)
          => (indices.cd = Fin(1093, 100) /\ indices.status = "danger")

C7_Witness == Computed /\ metals = ExampleSample /\ indices.cd = Fin(1093, 100)

\* C8: HPI is the weighted mean of the sub-indices with weights 0.9, 1.0, 1.0,
\* 0.8, and moving a concentration about within [0, Si] leaves HPI unchanged.
C8_HpiWeightedMean ==
    /\ calculateHPI(metals) = ClosedHPI(metals)
    /\ \A k \in Metal : \A v \in {Zero, Div(STANDARDS[k], Fin(2, 1)), STANDARDS[k]} :
          ~Gt(metals[k], STANDARDS[k])
              => calculateHPI([metals EXCEPT ![k] = v]) = calculateHPI(metals)

C8_Witness ==
    /\ Computed /\ Gt(indices.hpi, Zero)
    /\ Gt(metals.lead, STANDARDS.lead)
    /\ Gt(metals.cadmium, Zero) /\ Gt(STANDARDS.cadmium, metals.cadmium)

C10_CountsSumToTotal ==
    Returned =>
        /\ summary.value.total = Len(results)
        /\ summary.value.distribution.safe.count
             + summary.value.distribution.moderate.count
             + summary.value.distribution.danger.count = summary.value.total

C10_Witness ==
    /\ Returned /\ Len(results) >= 3
    /\ summary.value.distribution.safe.count > 0
    /\ summary.value.distribution.moderate.count > 0
    /\ summary.value.distribution.danger.count > 0

----------------------------------------------------------------------------
(* Summary fields *)

Tier == {"safe", "moderate", "danger"}

IndexField == {"hpi", "mi", "cd"}

\* x in units of 1/scale, for an x that is a whole number of them
InUnits(x, scale) == x.n * (scale \div x.d)

\* the stored values of column f, in hundredths, added up from the last to the first
RECURSIVE ColumnTotal(_, _, _)
ColumnTotal(rs, f, i) ==
    IF i = 0 THEN 0 ELSE InUnits(rs[i][f], 100) + ColumnTotal(rs, f, i - 1)

\* n/scale is a nearest multiple of 1/scale to num/den
Nearest(n, scale, num, den) == 2 * Abs(n * den - num * scale) <= den

----------------------------------------------------------------------------
(* Repeated calls *)

----------------------------------------------------------------------------
(* Critical metal *)

Found == critical # NoCritical

\* the place of a returned metal name in the canonical order
Position == [Lead |-> 1, Cadmium |-> 2, Arsenic |-> 3, Chromium |-> 4]

\* The ratio Ci/Si of the i-th metal in units of 1/150000: a millionth of a
\* mg/L is 15, 50, 15 and 3 units for lead, cadmium, arsenic and chromium.
RatioUnits(m, i) == Micro(m[metalKeys[i]]) * <<15, 50, 15, 3>>[i]

C14_ExceedsIffReturnedRatioAboveOne ==
    Found =>
        /\ Nearest(InUnits(critical.ratio, 100), 100,
                   RatioUnits(metals, Position[critical.metal]), 150000)
        /\ critical.exceedsStandard <=> Gt(critical.ratio, Fin(1, 1))

----------------------------------------------------------------------------
(* Index page *)

LastToast == IF toasts = <<>> THEN "none" ELSE toasts[Len(toasts)]

\* this step is the end of a run: the continuation of analyzeData after its timer
RunEnds == run # NoRun /\ run' = NoRun

\* this step is an upload: handleDataUploaded followed by DataUpload's toast
UploadHappens ==
    Len(toasts') = Len(toasts) + 1 /\ toasts'[Len(toasts')] = "Data uploaded successfully"

HasUndefined(samples) == \E i \in 1..Len(samples) : samples[i] = Undefined

\* result is sample with the indices of its own four concentrations added
ResultOf(sample, result) ==
    /\ DOMAIN result = DOMAIN sample \cup {"indices"}
    /\ \A field \in DOMAIN sample : result[field] = sample[field]
    /\ result.indices =
          calculatePollutionIndices(
              Sample(sample.lead, sample.cadmium, sample.arsenic, sample.chromium))

FullCollectionOf(samples, rs) ==
    /\ Len(rs) = Len(samples)
    /\ \A i \in 1..Len(samples) : samples[i] # Undefined /\ ResultOf(samples[i], rs[i])

\* C15: a run that succeeds stores one result per sample of the data it was
\* started on, in the order of the data, each the sample's own fields with the
\* indices of its four concentrations; uploadedData is left as it was.
C15_OneResultPerSample ==
    [][(RunEnds /\ toasts'[Len(toasts')] = "Analysis complete")
          => /\ analysisResults' # Null
             /\ FullCollectionOf(run.uploadedData.items, analysisResults'.items)
             /\ uploadedData' = uploadedData]_vars

C15_Witness ==
    /\ LastToast = "Analysis complete"
    /\ uploadedData = Array(<<SampleS2, SampleS1>>)
    /\ analysisResults # Null /\ Len(analysisResults.items) = 2
    /\ analysisResults.items[1].sampleId = "S2"
    /\ analysisResults.items[1].indices.status = "danger"
    /\ analysisResults.items[2].sampleId = "S1"
    /\ analysisResults.items[2].indices.status = "safe"

\* C18: an upload sets uploadedData to the new array and analysisResults to
\* null in one step.
C18_UploadDiscardsResults ==
    [][UploadHappens
          => /\ analysisResults' = Null
             /\ \E newData \in Datasets : uploadedData' = Array(newData)]_vars

C18_Witness ==
    /\ Len(toasts) >= 3
    /\ toasts[Len(toasts) - 1] = "Analysis complete"
    /\ LastToast = "Data uploaded successfully"
    /\ analysisResults = Null /\ uploadedData # Null

\* C19: a run whose calculation throws leaves analysisResults as it was, issues
\* 'Analysis failed' and ends with isAnalyzing false; and analysisResults, when
\* not null, is always the full collection of one of the uploaded arrays.
C19_AllOrNothing ==
    /\ [](analysisResults # Null
            => \E d \in Datasets : FullCollectionOf(d, analysisResults.items))
    /\ [][(RunEnds /\ HasUndefined(run.uploadedData.items))
            => /\ analysisResults' = analysisResults
               /\ toasts' = Append(toasts, "Analysis failed")
               /\ isAnalyzing' = FALSE]_vars

C19_Witness ==
    /\ LastToast = "Analysis failed"
    /\ uploadedData = Array(<<SampleS1, Undefined>>)
    /\ analysisResults = Null /\ ~isAnalyzing /\ run = NoRun

----------------------------------------------------------------------------
(* DataUpload *)

\* C16: every sample handed to onDataUploaded has four concentrations that are
\* numbers and not negative, a latitude in [-90, 90] and a longitude in
\* [-180, 180].
C16_DeliveredSamplesAreClean ==
    delivered # NotDelivered =>
        \A i \in 1..Len(delivered.items) :
            LET sample == delivered.items[i]
            IN  /\ \A metal \in Metal : Ge(sample[metal], Zero)
                /\ Ge(sample.latitude, Fin(-90, 1)) /\ Ge(Fin(90, 1), sample.latitude)
                /\ Ge(sample.longitude, Fin(-180, 1)) /\ Ge(Fin(180, 1), sample.longitude)

----------------------------------------------------------------------------
(* Unchecked input *)

SomeNaN(m) == \E k \in Metal : IsNaN(m[k])

NonNegative(m) == \A k \in Metal : Ge(m[k], Zero)

\* C17: calculatePollutionIndices returns on every input, and when one of the
\* four concentrations is NaN the hpi, mi and cd it returns are all NaN.
C17_NaNPropagates ==
    (Computed /\ SomeNaN(metals)) =>
        IsNaN(indices.hpi) /\ IsNaN(indices.mi) /\ IsNaN(indices.cd)

\* C20: when no concentration is negative, hpi, mi and cd are at least 0, as
\* computed and as stored.
C20_IndicesNonNegative ==
    NonNegative(metals) =>
        /\ Ge(calculateHPI(metals), Zero)
        /\ Ge(calculateMI(metals), Zero)
        /\ Ge(calculateCd(metals), Zero)
        /\ Computed => \A f \in IndexField : Ge(indices[f], Zero)

C20_Witness ==
    /\ Computed /\ NonNegative(metals)
    /\ metals.lead = Zero /\ metals.cadmium = Level("cadmium", 3)
    /\ Gt(indices.hpi, Zero) /\ Gt(indices.cd, Zero)

----------------------------------------------------------------------------
(* Index page: auto-analyze *)

\* no callback of the page is waiting to run: no effect, no timer
Quiet == effect = NoEffect /\ run = NoRun

\* C21: an uploaded dataset gets analysed and its results stored.  Once
\* nothing of the page is left to run, the results of the dataset last
\* uploaded are therefore in analysisResults.
C21_UploadedDataIsAnalyzed ==
    (Quiet /\ uploadedData # Null /\ ~HasUndefined(uploadedData.items))
        => /\ analysisResults # Null
           /\ FullCollectionOf(uploadedData.items, analysisResults.items)

\* C23: whenever analysisResults is not null, it holds the results of the
\* samples of the current uploadedData, in their order, whatever the
\* interleaving of uploads and analyses.
C23_ResultsOfCurrentData ==
    analysisResults # Null
        => /\ uploadedData # Null
           /\ Len(analysisResults.items) = Len(uploadedData.items)
           /\ \A i \in 1..Len(analysisResults.items) :
                 /\ uploadedData.items[i] # Undefined
                 /\ ResultOf(uploadedData.items[i], analysisResults.items[i])

\* this step starts a run: the effect calls analyzeData, which sets its timer
RunStarts == run' # NoRun /\ run' # run

\* C26: at most one run of analyzeData is in flight: a run is started only
\* when none is in flight and isAnalyzing is false, and a run in flight stays
\* the same run until it ends.
C26_OneRunInFlight ==
    /\ [][RunStarts => (run = NoRun /\ ~isAnalyzing)]_vars
    /\ [][run # NoRun => (run' = run \/ run' = NoRun)]_vars

\* an upload arrived during a run and its effect has passed without starting
\* a second run
C26_Witness ==
    /\ run # NoRun /\ isAnalyzing /\ effect = NoEffect
    /\ uploadedData # run.uploadedData
    /\ UploadCount = 2

\* C27: isAnalyzing is true exactly while a run is in flight, every run ends
\* with isAnalyzing false whether its calculation returns or throws, and
\* isAnalyzing never stays true forever.
C27_RunsFinish ==
    /\ [](isAnalyzing <=> run # NoRun)
    /\ [][RunEnds => ~isAnalyzing']_vars
    /\ (isAnalyzing ~> ~isAnalyzing)

\* a run that failed and a run that succeeded have both ended
C27_Witness ==
    /\ \E i \in 1..Len(toasts) : toasts[i] = "Analysis failed"
    /\ \E i \in 1..Len(toasts) : toasts[i] = "Analysis complete"
    /\ ~isAnalyzing /\ run = NoRun

----------------------------------------------------------------------------
(* DataUpload: handleFile *)

\* the row has its seven cells and its numbers are in range
RowPasses(row) ==
    missingFields(row, 1, <<>>) = <<>> /\ rangeErrors(sampleOfRow(row)) = <<>>

\* the file in hand is a .csv file with at least one row, all of whose rows pass
EveryRowPasses ==
    /\ endsWith(toLowerCase(fileName), <<".", "c", "s", "v">>)
    /\ data # <<>>
    /\ \A i \in 1..Len(data) : RowPasses(data[i])

\* C22: handleFile delivers, and sets 'success', only when the file is a .csv
\* whose every row passes, and then delivers all of its rows; otherwise nothing
\* is delivered and it ends in 'error' with a message; and uploadStatus
\* always leaves 'uploading'.
C22_AllOrNothingUpload ==
    /\ [][ReadSettles
            => /\ (uploadStatus' = "success" \/ delivered' # NotDelivered)
                     => /\ EveryRowPasses
                        /\ uploadStatus' = "success"
                        /\ delivered' = Array([i \in 1..Len(data) |-> sampleOfRow(data[i])])
               /\ ~EveryRowPasses
                     => /\ uploadStatus' = "error"
                        /\ errorMessage' # <<>>
                        /\ delivered' = NotDelivered]_vars
    /\ [](delivered # NotDelivered => uploadStatus = "success")
    /\ (uploadStatus = "uploading" ~> uploadStatus # "uploading")

\* a file of two rows, the first valid and the second not, was refused whole
C22_Witness ==
    /\ fileName = CsvName /\ data = <<GoodRow, NegativeRow>>
    /\ uploadStatus = "error" /\ delivered = NotDelivered
    /\ Len(errorMessage) = 1 /\ errorMessage[1].row = 2

----------------------------------------------------------------------------
(* Sample processor: the status as a function of Cd *)

CadmiumAtThree == Sample(Zero, Level("cadmium", 3), Zero, Zero)

\* C24: for a sample with no negative concentration the status follows from
\* the unrounded Cd alone: danger iff Cd > 3, moderate iff 1.5 < Cd <= 3, safe
\* iff Cd <= 1.5; hpi > 100 or mi > 1.5 implies Cd > 3, and hpi > 50 or
\* mi > 1 implies Cd > 1.5.
C24_StatusFollowsCd ==
    (Computed /\ NonNegative(metals)) =>
        LET hpi == calculateHPI(metals)
            mi == calculateMI(metals)
            cd == calculateCd(metals)
        IN  /\ indices.status = "danger" <=> Gt(cd, Fin(3, 1))
            /\ indices.status = "moderate" <=> (Gt(cd, Fin(15, 10)) /\ ~Gt(cd, Fin(3, 1)))
            /\ indices.status = "safe" <=> ~Gt(cd, Fin(15, 10))
            /\ (Gt(hpi, Fin(100, 1)) \/ Gt(mi, Fin(15, 10))) => Gt(cd, Fin(3, 1))
            /\ (Gt(hpi, Fin(50, 1)) \/ Gt(mi, Fin(1, 1))) => Gt(cd, Fin(15, 10))

\* hpi is above 50 and Cd is exactly 3: moderate
C24_Witness ==
    /\ Computed /\ metals = CadmiumAtThree
    /\ Gt(calculateHPI(metals), Fin(50, 1)) /\ calculateCd(metals) = Fin(3, 1)
    /\ indices.status = "moderate"

----------------------------------------------------------------------------
(* Sample processor: monotonicity *)

TierRank == [safe |-> 1, moderate |-> 2, danger |-> 3]

\* x >= y, for finite x and y that are whole numbers of 1/scale
AtLeast(x, y, scale) ==
    /\ IsFinite(x) /\ IsFinite(y)
    /\ scale % x.d = 0 /\ scale % y.d = 0
    /\ InUnits(x, scale) >= InUnits(y, scale)

\* C25: of two samples with no negative concentration, the second with every
\* concentration at least that of the first, the second has unrounded HPI, MI
\* and Cd at least those of the first and a status that is not a lower tier.
C25_Monotone ==
    (Len(earlier) = 2 /\ NonNegative(earlier[1][1])
                      /\ Dominates(earlier[2][1], earlier[1][1])) =>
        /\ AtLeast(calculateHPI(earlier[2][1]), calculateHPI(earlier[1][1]), 55500)
        /\ AtLeast(calculateMI(earlier[2][1]), calculateMI(earlier[1][1]), 600000)
        /\ AtLeast(calculateCd(earlier[2][1]), calculateCd(earlier[1][1]), 150000)
        /\ TierRank[earlier[2][2].status] >= TierRank[earlier[1][2].status]

\* half the standard of lead, then three times it: from safe to moderate
C25_Witness ==
    /\ Len(earlier) = 2
    /\ earlier[1][1] = HalfLead /\ earlier[1][2].status = "safe"
    /\ earlier[2][1] = LeadAtThree /\ earlier[2][2].status = "moderate"

----------------------------------------------------------------------------
(* Percentages *)

Tenths(x) == InUnits(x, 10)

\* the three percentages of the summary, in tenths of a percent, added up
PercentageTotal ==
    Tenths(summary.value.distribution.safe.percentage)
        + Tenths(summary.value.distribution.moderate.percentage)
        + Tenths(summary.value.distribution.danger.percentage)

TierCounts ==
    <<summary.value.distribution.safe.count,
      summary.value.distribution.moderate.count,
      summary.value.distribution.danger.count>>

\* C28: for a non-empty collection each of the three percentages is a number
\* of tenths in [0, 100] and their sum is 99.9, 100.0 or 100.1; one result of
\* each tier gives 99.9, and one safe, one moderate and four danger give 100.1.
C28_PercentagesNearHundred ==
    (Returned /\ Len(results) > 0) =>
        /\ \A t \in Tier :
              LET p == summary.value.distribution[t].percentage
              IN  IsFinite(p) /\ 10 % p.d = 0 /\ Tenths(p) >= 0 /\ Tenths(p) <= 1000
        /\ PercentageTotal \in {999, 1000, 1001}
        /\ TierCounts = <<1, 1, 1>> => PercentageTotal = 999
        /\ TierCounts = <<1, 1, 4>> => PercentageTotal = 1001

C28_Witness ==
    /\ Returned /\ Len(results) = 6
    /\ TierCounts = <<1, 1, 4>>
    /\ summary.value.distribution.safe.percentage = Fin(167, 10)
    /\ summary.value.distribution.danger.percentage = Fin(667, 10)
    /\ PercentageTotal = 1001

----------------------------------------------------------------------------
(* Report *)

Hpi(r) == InUnits(r.indices.hpi, 100)

Among(r, list) == \E j \in 1..Len(list) : list[j] = r

\* C30: the critical-sites list of a report holds at most 5 samples, all of
\* them danger samples of the results, by stored hpi descending; no danger
\* sample left out has a higher hpi than one that is in; and the results are
\* left in their original order.
C30_CriticalSites ==
    /\ \A o \in 1..Len(outputs) :
          outputs[o].kind = "report" =>
             LET list == outputs[o].criticalSamples
                 rs == analysisResults.items
             IN  /\ Len(list) <= 5
                 /\ \A j \in 1..Len(list) :
                       list[j].indices.status = "danger" /\ Among(list[j], rs)
                 /\ \A j \in 1..Len(list) - 1 : Hpi(list[j]) >= Hpi(list[j + 1])
                 /\ \A i \in 1..Len(rs) :
                       (rs[i].indices.status = "danger" /\ ~Among(rs[i], list))
                          => \A j \in 1..Len(list) : Hpi(rs[i]) <= Hpi(list[j])
    /\ Len(analysisResults.items) = Len(uploadedData.items)
    /\ \A i \in 1..Len(analysisResults.items) :
          analysisResults.items[i].sampleId = uploadedData.items[i].sampleId

\* six danger samples, the two with the highest hpi uploaded last: they head
\* the list and one sample of the lower hpi is left out
C30_Witness ==
    /\ Len(outputs) >= 1 /\ outputs[1].kind = "report"
    /\ Len(analysisResults.items) = 6
    /\ \A i \in 1..4 : Hpi(analysisResults.items[i]) = 10000
    /\ \A i \in 5..6 : Hpi(analysisResults.items[i]) = 20000
    /\ Len(outputs[1].criticalSamples) = 5
    /\ outputs[1].criticalSamples[1].sampleId = "S5"
    /\ outputs[1].criticalSamples[2].sampleId = "S6"
    /\ outputs[1].criticalSamples[3].sampleId = "S1"
    /\ outputs[1].criticalSamples[5].sampleId = "S3"

----------------------------------------------------------------------------
(* Empty collections *)

EmptyArray == Array(<<>>)

\* C29: in the application no array of samples or of results is ever empty
\* and the aggregator is never called on an empty collection; StatsDashboard
\* given an empty results array renders nothing and makes no call; and no
\* export of an empty collection produces a file.
C29_NoEmptyCollection ==
    /\ delivered # EmptyArray /\ uploadedData # EmptyArray /\ analysisResults # EmptyArray
    /\ summary # NoSummary => (Len(results) > 0 /\ analysisResults # Null)
    /\ \A o \in 1..Len(outputs) : outputs[o].kind = "csv" => Len(outputs[o].rows) > 0
    /\ StatsDashboard(EmptyArray) = [calls |-> <<>>, stats |-> Null]
    /\ exportToCSV(<<>>).kind = "alert"
    /\ exportToPDF(<<>>, Window).output.kind = "alert"

\* a file without rows was refused after an earlier file had been analysed,
\* summarised on the dashboard and exported
C29_Witness ==
    /\ data = <<>> /\ uploadStatus = "error"
    /\ errorMessage = <<[text |-> "File is empty or invalid"]>>
    /\ analysisResults # Null /\ Len(analysisResults.items) = 2
    /\ summary # NoSummary /\ summary.value.total = 2
    /\ Len(outputs) = 2 /\ outputs[1].kind = "csv" /\ outputs[2].kind = "report"

====
